---- MODULE Spec2Model ----
(***************************************************************************)
(* The crustls demo server, examples/crustlserver/main.c: the accept loop  *)
(* of main, the per-connection loop of handle_conn with do_read,           *)
(* copy_plaintext_to_buffer, request_is_finished and send_response, the    *)
(* raw socket callbacks, and the rustls_connection engine they drive.      *)
(*                                                                         *)
(* The engine (the rustls_connection calls) is part of the library, not of *)
(* main.c; it is modelled from the interface description (section 4.2 of   *)
(* the specification) and from the way main.c consumes its results.        *)
(* The client and the kernel socket are the environment.                   *)
(***************************************************************************)
EXTENDS Integers, Sequences, FiniteSets, TLC

-----------------------------------------------------------------------------
(* Bounds of the model *)

\* connections the acceptor takes before the model stops accepting
MaxConns == 2
\* TLS records one client sends on a connection (handshake record included)
MaxRecords == 3
\* length of the long plaintext chunk a client may send in one record
FillLen == 2047

(* Program constants *)

\* calloc(1, 2048) and data_capacity = 2048 in main
InitialCapacity == 2048
\* the headroom test of copy_plaintext_to_buffer
GrowThreshold == 1024

-----------------------------------------------------------------------------
(* Bytes.  A byte is one of four symbols: carriage return, line feed, the  *)
(* zero byte and an ordinary letter.                                       *)

CR == "CR"
LF == "LF"
NUL == "NUL"
X == "x"

\* the pattern request_is_finished looks for: "\r\n\r\n"
Terminator == <<CR, LF, CR, LF>>

\* const char* response in send_response
Response == "HTTP/1.1 200 OK\r\nContent-Length: 6\r\n\r\nhello\n"

\* errno values; EAGAIN and EWOULDBLOCK are one value (Linux, and lines 34-37)
ENone == "0"
EWOULDBLOCK == "EWOULDBLOCK"
ECONNRESET == "ECONNRESET"

\* enum crustls_demo_result
CRUSTLS_DEMO_OK == "CRUSTLS_DEMO_OK"
CRUSTLS_DEMO_ERROR == "CRUSTLS_DEMO_ERROR"
CRUSTLS_DEMO_AGAIN == "CRUSTLS_DEMO_AGAIN"
CRUSTLS_DEMO_EOF == "CRUSTLS_DEMO_EOF"
CRUSTLS_DEMO_CLOSE_NOTIFY == "CRUSTLS_DEMO_CLOSE_NOTIFY"

\* enum exchange_state
READING_REQUEST == "READING_REQUEST"
SENT_RESPONSE == "SENT_RESPONSE"

\* rustls_result values main.c tests for
RUSTLS_RESULT_OK == "RUSTLS_RESULT_OK"
RUSTLS_RESULT_ALERT_CLOSE_NOTIFY == "RUSTLS_RESULT_ALERT_CLOSE_NOTIFY"
RUSTLS_RESULT_FAILED == "RUSTLS_RESULT_FAILED"

Min(a, b) == IF a < b THEN a ELSE b

Conns == 1..MaxConns

-----------------------------------------------------------------------------
(* The client: what it may put on the wire *)

Fill == [i \in 1..FillLen |-> X]

\* the plaintext chunks a client may send in one application-data record, by
\* name; on the wire a record carries the name, which stands for the
\* ciphertext, and the engine turns it into the bytes when it decrypts
Chunks == {"term", "line", "nul", "fill"}

Bytes(chunk) ==
  CASE chunk = "term" -> Terminator
    [] chunk = "line" -> <<X, CR, LF>>
    [] chunk = "nul" -> <<NUL>>
    [] chunk = "fill" -> Fill
    [] OTHER -> <<>>

HsRecord == [kind |-> "hs", data |-> "none"]
BadRecord == [kind |-> "bad", data |-> "none"]
AlertRecord == [kind |-> "alert", data |-> "none"]
AppRecords == {[kind |-> "app", data |-> d] : d \in Chunks}
NoRecord == [kind |-> "none", data |-> "none"]

\* the plaintext of a sequence of chunks
RECURSIVE Flatten(_)
Flatten(chunks) ==
  IF chunks = <<>> THEN <<>> ELSE Bytes(Head(chunks)) \o Flatten(Tail(chunks))

\* a record travels as two halves, so that a raw read can end inside a record
Frag(r, h) == [rec |-> r, half |-> h]

-----------------------------------------------------------------------------
VARIABLES
  mainpc,    \* where main is: "accept", "join", "exited", "aborted"
  cur,       \* the connection main created last (conndata, thrd); 0 before
  rconn,     \* main's rconn: the engine created last; 0 is NULL
  engines,   \* engine sessions allocated and not freed
  buffers,   \* conndata/data_from_client allocations not freed
  openFds,   \* client sockets open in the server process
  conn,      \* per connection: conndata_t and the locals of handle_conn
             \* (err, n and result as they are at the cleanup label)
  eng,       \* per connection: the rustls_connection
  sock,      \* per connection: the socket and the client behind it
  lastFatal  \* whether the thread main is joining has ended by a fatal
             \* failure (what its last lines on stderr say)

vars == <<mainpc, cur, rconn, engines, buffers, openFds, conn, eng, sock,
          lastFatal>>

\* the file descriptor of the listening socket, and the one accept returns
ListenFd == 3
NextFd == CHOOSE f \in (ListenFd + 1)..(ListenFd + MaxConns + 1) :
            /\ f \notin openFds
            /\ \A g \in (ListenFd + 1)..(f - 1) : g \in openFds

IdleConn == [pc |-> "idle", fd |-> 0, data_from_client |-> <<>>, data_len |-> 0,
             data_capacity |-> 0, alloc |-> 0, state |-> READING_REQUEST,
             ret |-> 1, err |-> ENone, n |-> 0, result |-> CRUSTLS_DEMO_OK,
             read_fds |-> FALSE, write_fds |-> FALSE, errno |-> ENone,
             cause |-> "none", written |-> <<>>]
\* (written: the payloads handed to rustls_connection_write so far)

DoneConn == [IdleConn EXCEPT !.pc = "done"]

IdleEng == [inbuf |-> <<>>, plain |-> <<>>, closeNotify |-> FALSE,
            signalled |-> FALSE, tlsOut |-> <<>>]
\* (signalled: rustls_connection_process_new_packets has returned the
\* close-notify signal)

IdleSock == [rx |-> <<>>, peerClosed |-> FALSE, nonblocking |-> FALSE,
             tx |-> <<>>, sent |-> 0, partial |-> NoRecord,
             sentChunks |-> <<>>, handshaken |-> FALSE, alerted |-> FALSE]

Init ==
  /\ mainpc = "accept"
  /\ cur = 0
  /\ rconn = 0
  /\ engines = {}
  /\ buffers = {}
  /\ openFds = {}
  /\ conn = [c \in Conns |-> IdleConn]
  /\ eng = [c \in Conns |-> IdleEng]
  /\ sock = [c \in Conns |-> IdleSock]
  /\ lastFatal = FALSE

-----------------------------------------------------------------------------
(* The engine, as main.c consumes it *)

\* rustls_connection_wants_read: the engine asks for more TLS bytes while it
\* holds no undelivered plaintext and the peer has not closed the session
rustls_connection_wants_read(e) == e.plain = <<>> /\ ~e.closeNotify

\* rustls_connection_wants_write: the engine holds TLS bytes to emit
rustls_connection_wants_write(e) == e.tlsOut # <<>>

\* rustls_connection_process_new_packets: decrypt every complete record of
\* the ingest buffer, in order; a half record stays for the next call.
\* A handshake record queues the server's flight, an application record
\* yields its plaintext, a close_notify alert is remembered (records after it
\* are ignored), a malformed record fails the call.
\* The interface description gives this call a close-notify signal as a
\* result; main.c takes the signal from rustls_connection_read.  signal says
\* which the engine does: TRUE, the call returns the signal when it meets the
\* alert; FALSE, it returns OK and leaves the signal to rustls_connection_read.
RECURSIVE rustls_connection_process_new_packets(_, _)
rustls_connection_process_new_packets(e, signal) ==
  IF Len(e.inbuf) < 2
  THEN [result |-> RUSTLS_RESULT_OK, eng |-> e]
  ELSE LET r == e.inbuf[1].rec
           rest == SubSeq(e.inbuf, 3, Len(e.inbuf))
       IN IF e.closeNotify
          THEN rustls_connection_process_new_packets([e EXCEPT !.inbuf = rest], signal)
          ELSE IF r.kind = "bad"
          THEN [result |-> RUSTLS_RESULT_FAILED, eng |-> [e EXCEPT !.inbuf = rest]]
          ELSE IF r.kind = "hs"
          THEN rustls_connection_process_new_packets(
                 [e EXCEPT !.inbuf = rest, !.tlsOut = Append(@, "handshake")], signal)
          ELSE IF r.kind = "alert" /\ signal
          THEN [result |-> RUSTLS_RESULT_ALERT_CLOSE_NOTIFY,
                eng |-> [e EXCEPT !.inbuf = rest, !.closeNotify = TRUE,
                                  !.signalled = TRUE]]
          ELSE IF r.kind = "alert"
          THEN rustls_connection_process_new_packets(
                 [e EXCEPT !.inbuf = rest, !.closeNotify = TRUE], signal)
          ELSE rustls_connection_process_new_packets(
                 [e EXCEPT !.inbuf = rest, !.plain = @ \o Bytes(r.data)], signal)

\* rustls_connection_read into a buffer of avail bytes: as many plaintext
\* bytes as fit; with no plaintext left, the close_notify signal if the alert
\* was received, else 0 bytes.  fails: the call reports an error.
rustls_connection_read(e, avail, fails) ==
  LET k == Min(avail, Len(e.plain))
  IN IF fails THEN [result |-> RUSTLS_RESULT_FAILED, n |-> 0, bytes |-> <<>>, eng |-> e]
     ELSE IF k > 0
     THEN [result |-> RUSTLS_RESULT_OK, n |-> k, bytes |-> SubSeq(e.plain, 1, k),
           eng |-> [e EXCEPT !.plain = SubSeq(@, k + 1, Len(@))]]
     ELSE IF e.plain = <<>> /\ e.closeNotify
     THEN [result |-> RUSTLS_RESULT_ALERT_CLOSE_NOTIFY, n |-> 0, bytes |-> <<>>, eng |-> e]
     ELSE [result |-> RUSTLS_RESULT_OK, n |-> 0, bytes |-> <<>>, eng |-> e]

\* rustls_connection_write of the whole payload: the engine queues one
\* encrypted record carrying it
rustls_connection_write(e, payload) == [e EXCEPT !.tlsOut = Append(@, payload)]

-----------------------------------------------------------------------------
(* The accumulator *)

\* Avail without the byte kept for the terminating zero
Avail_NoSentinel(cd) == cd.data_capacity - cd.data_len

\* size_t avail = conn->data_capacity - conn->data_len - 1
Avail(cd) == cd.data_capacity - cd.data_len - 1

\* the headroom test of copy_plaintext_to_buffer
NeedsGrowth(cd) == cd.data_capacity - cd.data_len < GrowThreshold

\* the realloc of copy_plaintext_to_buffer: the allocation becomes
\* data_capacity * 2; data_capacity itself is not assigned
Grow(cd) == IF NeedsGrowth(cd) THEN [cd EXCEPT !.alloc = cd.data_capacity * 2] ELSE cd

\* conn->data_len += n, after the engine wrote n bytes at data_from_client + data_len
Appended(cd, bytes) ==
  [cd EXCEPT !.data_from_client = SubSeq(@, 1, cd.data_len) \o bytes,
             !.data_len = @ + Len(bytes)]

\* the for(;;) of copy_plaintext_to_buffer.  fail names what goes wrong in
\* this call: "read" (rustls_connection_read reports an error), "stdout"
\* (write_all fails), or "none".
RECURSIVE CopyLoop(_, _, _)
CopyLoop(cd, e, fail) ==
  LET r == rustls_connection_read(e, Avail(cd), fail = "read")
  IN IF r.result = RUSTLS_RESULT_ALERT_CLOSE_NOTIFY
     THEN [result |-> CRUSTLS_DEMO_CLOSE_NOTIFY, cd |-> cd, eng |-> r.eng]
     ELSE IF r.result # RUSTLS_RESULT_OK
     THEN [result |-> CRUSTLS_DEMO_ERROR, cd |-> cd, eng |-> r.eng]
     ELSE IF r.n = 0
     THEN [result |-> CRUSTLS_DEMO_OK, cd |-> cd, eng |-> r.eng]
     ELSE IF fail = "stdout"
     THEN [result |-> CRUSTLS_DEMO_ERROR, cd |-> Appended(cd, r.bytes), eng |-> r.eng]
     ELSE CopyLoop(Appended(cd, r.bytes), r.eng, fail)

\* copy_plaintext_to_buffer
copy_plaintext_to_buffer(cd, e, fail) == CopyLoop(Grow(cd), e, fail)

\* strlen of the accumulator after conn->data_from_client[conn->data_len] = 0:
\* the number of bytes before the first zero byte
CStrLen(cd) ==
  LET zeros == {i \in 1..cd.data_len : cd.data_from_client[i] = NUL}
  IN IF zeros = {} THEN cd.data_len
     ELSE (CHOOSE i \in zeros : \A j \in zeros : i <= j) - 1

\* whether pat occurs in the first len bytes of s
Occurs(pat, s, len) ==
  \E i \in 1..(len - Len(pat) + 1) : \A k \in 1..Len(pat) : s[i + k - 1] = pat[k]

\* request_is_finished looking for a single \r\n
request_is_finished_SingleCRLF(cd) ==
  Occurs(<<CR, LF>>, cd.data_from_client, CStrLen(cd))

\* request_is_finished: strstr(conn->data_from_client, "\r\n\r\n") != NULL
request_is_finished(cd) == Occurs(Terminator, cd.data_from_client, CStrLen(cd))

-----------------------------------------------------------------------------
(* main *)

ProcessAlive == mainpc \in {"accept", "join"}

\* the cleanup label of main: rustls_connection_free(rconn) frees the engine
\* created last and nothing else
MainCleanup(es) == es \ {rconn'}

\* the state of a connection when its thread starts: conndata as main fills
\* it in, and the initial values of the locals of handle_conn
NewConn(fd) ==
  [IdleConn EXCEPT !.pc = "select", !.fd = fd,
                   !.data_capacity = InitialCapacity, !.alloc = InitialCapacity]

\* accept fails: perror, goto cleanup
AcceptFail ==
  /\ mainpc = "accept"
  /\ mainpc' = "exited"
  /\ rconn' = rconn
  /\ engines' = MainCleanup(engines)
  /\ UNCHANGED <<cur, buffers, openFds, conn, eng, sock, lastFatal>>

\* accept succeeds and rustls_server_connection_new fails: goto cleanup,
\* the accepted socket stays open
SessionFail ==
  /\ mainpc = "accept"
  /\ cur < MaxConns
  /\ mainpc' = "exited"
  /\ openFds' = openFds \cup {NextFd}
  /\ rconn' = rconn
  /\ engines' = MainCleanup(engines)
  /\ UNCHANGED <<cur, buffers, conn, eng, sock, lastFatal>>

\* accept, nonblock (its result is not looked at), a new engine session, a
\* new conndata with a 2048 byte accumulator, and pthread_create fails
ThreadCreateFail ==
  /\ mainpc = "accept"
  /\ cur < MaxConns
  /\ mainpc' = "exited"
  /\ cur' = cur + 1
  /\ rconn' = cur + 1
  /\ openFds' = openFds \cup {NextFd}
  /\ buffers' = buffers \cup {cur + 1}
  /\ engines' = MainCleanup(engines \cup {cur + 1})
  /\ UNCHANGED <<conn, eng, sock, lastFatal>>

\* AfterCreate with main going round the loop without joining the thread
AfterCreate_NoJoin == "accept"

\* what main does once pthread_create returned 0: pthread_join
AfterCreate == "join"

\* accept, nonblock (its result is not looked at: nb says whether the socket
\* became non-blocking), a new engine session, a new conndata with a 2048
\* byte accumulator, pthread_create of handle_conn
AcceptConn ==
  /\ mainpc = "accept"
  /\ cur < MaxConns
  /\ \E nb \in BOOLEAN :
       LET c == cur + 1
       IN /\ cur' = c
          /\ rconn' = c
          /\ engines' = engines \cup {c}
          /\ buffers' = buffers \cup {c}
          /\ openFds' = openFds \cup {NextFd}
          /\ conn' = [conn EXCEPT ![c] = NewConn(NextFd)]
          /\ eng' = [eng EXCEPT ![c] = IdleEng]
          /\ sock' = [sock EXCEPT ![c] = [IdleSock EXCEPT !.nonblocking = nb]]
          /\ mainpc' = AfterCreate
  /\ UNCHANGED lastFatal

\* Join with main leaving the accept loop when the connection failed
Join_ExitAfterFailure ==
  /\ mainpc = "join"
  /\ conn[cur].pc = "done"
  /\ mainpc' = IF lastFatal THEN "exited" ELSE "accept"
  /\ lastFatal' = FALSE
  /\ UNCHANGED <<cur, rconn, engines, buffers, openFds, conn, eng, sock>>

\* pthread_join returns when the thread of the connection has returned; main
\* goes round the while(true) to accept again
Join ==
  /\ mainpc = "join"
  /\ conn[cur].pc = "done"
  /\ mainpc' = "accept"
  /\ lastFatal' = FALSE
  /\ UNCHANGED <<cur, rconn, engines, buffers, openFds, conn, eng, sock>>

-----------------------------------------------------------------------------
(* The client and the network *)

\* The server looks at the socket in select, in read_cb and in the read after
\* close_notify, and nowhere else; what the client does in between shows at
\* the next of these points, so the client's steps are taken there.
ClientLive(c) == ProcessAlive /\ conn[c].pc \in {"select", "read_tls", "verify"}

\* the records a client may start next: the handshake (or garbage in its
\* place), then application data until it sends close_notify, and after
\* close_notify only bytes that no longer belong to the session
NextRecords(s) ==
  IF ~s.handshaken THEN {HsRecord, BadRecord}
  ELSE IF s.alerted THEN {BadRecord}
  ELSE AppRecords \cup {AlertRecord}

\* the client puts the next half record on the wire
ClientSend(c) ==
  /\ ClientLive(c)
  /\ ~sock[c].peerClosed
  /\ \/ /\ sock[c].partial # NoRecord
        /\ sock' = [sock EXCEPT ![c].rx = Append(@, Frag(sock[c].partial, 2)),
                                ![c].partial = NoRecord]
     \/ /\ sock[c].partial = NoRecord
        /\ sock[c].sent < MaxRecords
        /\ \E r \in NextRecords(sock[c]) :
             sock' = [sock EXCEPT
                        ![c].rx = Append(@, Frag(r, 1)),
                        ![c].partial = r,
                        ![c].sent = @ + 1,
                        ![c].handshaken = @ \/ r.kind = "hs",
                        ![c].alerted = @ \/ r.kind = "alert",
                        ![c].sentChunks = IF r.kind = "app" THEN Append(@, r.data) ELSE @]
  /\ UNCHANGED <<mainpc, cur, rconn, engines, buffers, openFds, conn, eng, lastFatal>>

\* the client closes its end of the TCP connection
ClientClose(c) ==
  /\ ClientLive(c)
  /\ ~sock[c].peerClosed
  /\ sock' = [sock EXCEPT ![c].peerClosed = TRUE]
  /\ UNCHANGED <<mainpc, cur, rconn, engines, buffers, openFds, conn, eng, lastFatal>>

-----------------------------------------------------------------------------
(* handle_conn *)

Running(c) == ProcessAlive /\ conn[c].pc \notin {"idle", "done"}

\* goto cleanup, remembering which call ended the loop; the fd sets are not
\* looked at again
Exit(cd, cause) ==
  [cd EXCEPT !.pc = "cleanup", !.cause = cause,
             !.read_fds = FALSE, !.write_fds = FALSE]

\* Once handle_conn is at the cleanup label it calls the engine no more and
\* reads and writes the socket no more: what the engine and the socket still
\* hold is never looked at again and is dropped from the state.  What was
\* written to the socket, what the client has sent and whether the engine
\* has signalled close-notify is kept.  cd is the connection after the step.
LeftEng(cd, e) ==
  IF cd.pc = "cleanup" THEN [IdleEng EXCEPT !.signalled = e.signalled] ELSE e

LeftSock(cd, s) ==
  IF cd.pc = "cleanup"
  THEN [IdleSock EXCEPT !.tx = s.tx, !.sentChunks = s.sentChunks,
                        !.handshaken = s.handshaken]
  ELSE s

\* the kernel reports the socket readable: bytes are queued or the peer closed
ReadReady(s) == s.rx # <<>> \/ s.peerClosed

\* select returns -1: perror, goto cleanup
SelectError(c) ==
  /\ Running(c)
  /\ conn[c].pc = "select"
  /\ conn' = [conn EXCEPT ![c] = Exit([@ EXCEPT !.errno = "EINTR"], "select")]
  /\ eng' = [eng EXCEPT ![c] = LeftEng(conn'[c], @)]
  /\ sock' = [sock EXCEPT ![c] = LeftSock(conn'[c], @)]
  /\ UNCHANGED <<mainpc, cur, rconn, engines, buffers, openFds, lastFatal>>

\* where the loop goes after select returned with the sets r (readable) and
\* w (writable)
AfterSelect(r, w) == IF r THEN "read_tls" ELSE IF w THEN "write_tls" ELSE "check"

\* the top of the for(;;): the interest sets from wants_read and wants_write,
\* then select without timeout, which returns once the socket is ready for
\* something it was asked about.  The call has no timeout, so it does not
\* return 0.
Select(c) ==
  /\ Running(c)
  /\ conn[c].pc = "select"
  /\ \E w \in BOOLEAN :
       LET interestR == rustls_connection_wants_read(eng[c])
           interestW == rustls_connection_wants_write(eng[c])
           r == interestR /\ ReadReady(sock[c])
       IN /\ w => interestW
          /\ r \/ w
          /\ conn' = [conn EXCEPT ![c].read_fds = r, ![c].write_fds = w,
                                  ![c].pc = AfterSelect(r, w)]
  /\ UNCHANGED <<mainpc, cur, rconn, engines, buffers, openFds, eng, sock, lastFatal>>

\* where the loop goes when the read loop is left by break
AfterReadLoop(cd) == IF cd.write_fds THEN "write_tls" ELSE "check"

\* AfterIngest with do_read returning before process_new_packets, so that
\* handle_conn calls read_tls again
AfterIngest_SkipProcess == "read_tls"

\* where do_read goes after a read_tls without error that consumed more than
\* 0 bytes: rustls_connection_process_new_packets
AfterIngest == "process"

\* do_read, rustls_connection_read_tls: read_cb reads what is queued in the
\* socket into the engine; do_read goes on to process_new_packets.  How the
\* stream is cut into reads is decided by when the client sends: it may send
\* half a record at a time and between any two reads, so a read that ends
\* inside a record, or with more to come, is a read taken before the client
\* sent the rest.
ReadTlsData(c) ==
  /\ Running(c)
  /\ conn[c].pc = "read_tls"
  /\ sock[c].rx # <<>>
  /\ eng' = [eng EXCEPT ![c].inbuf = @ \o sock[c].rx]
  /\ sock' = [sock EXCEPT ![c].rx = <<>>]
  /\ conn' = [conn EXCEPT ![c].pc = AfterIngest]
  /\ UNCHANGED <<mainpc, cur, rconn, engines, buffers, openFds, lastFatal>>

\* do_read, rustls_connection_read_tls: read_cb reads 0 bytes (the peer closed
\* the socket): n == 0, CRUSTLS_DEMO_EOF, and handle_conn goes to cleanup
ReadTlsEof(c) ==
  /\ Running(c)
  /\ conn[c].pc = "read_tls"
  /\ sock[c].rx = <<>>
  /\ sock[c].peerClosed
  /\ conn' = [conn EXCEPT ![c] =
       Exit([@ EXCEPT !.n = 0, !.result = CRUSTLS_DEMO_EOF], "eof")]
  /\ eng' = [eng EXCEPT ![c] = LeftEng(conn'[c], @)]
  /\ sock' = [sock EXCEPT ![c] = LeftSock(conn'[c], @)]
  /\ UNCHANGED <<mainpc, cur, rconn, engines, buffers, openFds, lastFatal>>

\* what do_read returns for the error code err of rustls_connection_read_tls
\* (err is not 0)
ReadTlsFailure(err) ==
  IF err = EWOULDBLOCK THEN CRUSTLS_DEMO_AGAIN ELSE CRUSTLS_DEMO_ERROR

\* what handle_conn does with a result of do_read that is not
\* CRUSTLS_DEMO_OK: break, or goto cleanup (with ret = 0 after close_notify)
OnReadResult(cd, result, cause) ==
  IF result = CRUSTLS_DEMO_AGAIN
  THEN [cd EXCEPT !.pc = AfterReadLoop(cd)]
  ELSE IF result = CRUSTLS_DEMO_CLOSE_NOTIFY
  THEN Exit([cd EXCEPT !.result = result, !.ret = 0], cause)
  ELSE Exit([cd EXCEPT !.result = result], cause)

\* do_read, rustls_connection_read_tls: read_cb fails with errno e, which the
\* engine hands back.  On a non-blocking socket with nothing queued that is
\* EWOULDBLOCK; a connection reset can happen at any time.
ReadTlsFail(c) ==
  /\ Running(c)
  /\ conn[c].pc = "read_tls"
  /\ \E e \in {EWOULDBLOCK, ECONNRESET} :
       /\ e = EWOULDBLOCK =>
            sock[c].rx = <<>> /\ ~sock[c].peerClosed /\ sock[c].nonblocking
       /\ conn' = [conn EXCEPT ![c] =
            OnReadResult([@ EXCEPT !.errno = e], ReadTlsFailure(e), "read_tls")]
  /\ eng' = [eng EXCEPT ![c] = LeftEng(conn'[c], @)]
  /\ sock' = [sock EXCEPT ![c] = LeftSock(conn'[c], @)]
  /\ UNCHANGED <<mainpc, cur, rconn, engines, buffers, openFds, lastFatal>>

\* OnProcessResult with the close-notify signal taken as the start of a
\* clean end
OnProcessResult_CloseNotifyIsClean(result) ==
  IF result = RUSTLS_RESULT_ALERT_CLOSE_NOTIFY THEN CRUSTLS_DEMO_CLOSE_NOTIFY
  ELSE IF result # RUSTLS_RESULT_OK THEN CRUSTLS_DEMO_ERROR
  ELSE CRUSTLS_DEMO_OK

\* what do_read makes of the result of rustls_connection_process_new_packets:
\* CRUSTLS_DEMO_ERROR for every result that is not RUSTLS_RESULT_OK, else it
\* goes on (CRUSTLS_DEMO_OK) to copy_plaintext_to_buffer
OnProcessResult(result) ==
  IF result # RUSTLS_RESULT_OK THEN CRUSTLS_DEMO_ERROR ELSE CRUSTLS_DEMO_OK

\* the rest of do_read after a read_tls that consumed bytes:
\* process_new_packets, then copy_plaintext_to_buffer.  A result of
\* CRUSTLS_DEMO_OK lets handle_conn call do_read again; close_notify leads to
\* the read that verifies the peer closed the socket.
ProcessAndCopy(c) ==
  /\ Running(c)
  /\ conn[c].pc = "process"
  /\ \E signal \in BOOLEAN :
       LET p == rustls_connection_process_new_packets(eng[c], signal)
           d == OnProcessResult(p.result)
           cause == IF d = CRUSTLS_DEMO_OK THEN "plaintext"
                    ELSE "process_new_packets"
       IN \E fail \in IF d = CRUSTLS_DEMO_OK THEN {"none", "read", "stdout"}
                                              ELSE {"none"} :
            LET r == IF d = CRUSTLS_DEMO_OK
                     THEN copy_plaintext_to_buffer(conn[c], p.eng, fail)
                     ELSE [result |-> d, cd |-> conn[c], eng |-> p.eng]
            IN /\ conn' = [conn EXCEPT ![c] =
                    IF r.result = CRUSTLS_DEMO_OK
                    THEN [r.cd EXCEPT !.pc = "read_tls"]
                    ELSE IF r.result = CRUSTLS_DEMO_CLOSE_NOTIFY
                    THEN [r.cd EXCEPT !.pc = "verify"]
                    ELSE OnReadResult(r.cd, r.result, cause)]
               /\ eng' = [eng EXCEPT ![c] = LeftEng(conn'[c], r.eng)]
  /\ sock' = [sock EXCEPT ![c] = LeftSock(conn'[c], @)]
  /\ UNCHANGED <<mainpc, cur, rconn, engines, buffers, openFds, lastFatal>>

\* copy_plaintext_to_buffer: realloc returns NULL: abort()
CopyOutOfMemory(c) ==
  /\ Running(c)
  /\ conn[c].pc = "process"
  /\ rustls_connection_process_new_packets(eng[c], FALSE).result = RUSTLS_RESULT_OK
  /\ NeedsGrowth(conn[c])
  /\ mainpc' = "aborted"
  /\ UNCHANGED <<cur, rconn, engines, buffers, openFds, conn, eng, sock, lastFatal>>

\* VerifyResult without the test of errno
VerifyResult_NoErrnoTest(n, errno) ==
  IF n # 0 THEN CRUSTLS_DEMO_ERROR ELSE CRUSTLS_DEMO_CLOSE_NOTIFY

\* the test after the read that follows close_notify: n is the size_t the
\* result of read was stored in (-1 stands for the wrapped error result, which
\* is not 0), errno the value the thread sees at that point
VerifyResult(n, errno) ==
  IF n # 0 /\ errno # EWOULDBLOCK THEN CRUSTLS_DEMO_ERROR
  ELSE CRUSTLS_DEMO_CLOSE_NOTIFY

\* do_read after close_notify: one read on the socket itself.  It returns
\* the queued bytes, or 0 when the peer closed, or fails with EWOULDBLOCK or
\* with a reset; a read that succeeds leaves errno as it was.
VerifyRead(c) ==
  /\ Running(c)
  /\ conn[c].pc = "verify"
  /\ \E out \in {"data", "eof", EWOULDBLOCK, ECONNRESET} :
       LET s == sock[c]
           n == IF out = "data" THEN Len(s.rx) ELSE IF out = "eof" THEN 0 ELSE -1
           errno == IF out \in {"data", "eof"} THEN conn[c].errno ELSE out
       IN /\ out = "data" => s.rx # <<>>
          /\ out = "eof" => s.rx = <<>> /\ s.peerClosed
          /\ out = EWOULDBLOCK => s.rx = <<>> /\ ~s.peerClosed /\ s.nonblocking
          /\ conn' = [conn EXCEPT ![c] =
               OnReadResult([@ EXCEPT !.n = n, !.errno = errno],
                            VerifyResult(n, errno), "verify")]
          /\ sock' = [sock EXCEPT ![c] = LeftSock(conn'[c], [@ EXCEPT !.rx = <<>>])]
  /\ eng' = [eng EXCEPT ![c] = LeftEng(conn'[c], @)]
  /\ UNCHANGED <<mainpc, cur, rconn, engines, buffers, openFds, lastFatal>>

\* what handle_conn does after rustls_connection_write_tls returned err and
\* stored n: goto cleanup on an error and on n == 0, else go on
AfterWriteTls(cd, err, n) ==
  IF err # ENone THEN Exit([cd EXCEPT !.err = err, !.n = n], "write_tls")
  ELSE IF n = 0 THEN Exit([cd EXCEPT !.err = err, !.n = n], "write_tls_eof")
  ELSE [cd EXCEPT !.pc = "check"]

\* the writable branch: rustls_connection_write_tls, whose write_cb writes k
\* of the queued records to the socket (k = 0: write returned 0)
WriteTls(c) ==
  /\ Running(c)
  /\ conn[c].pc = "write_tls"
  /\ \E k \in 0..Len(eng[c].tlsOut) :
       /\ conn' = [conn EXCEPT ![c] = AfterWriteTls(@, ENone, k)]
       /\ sock' = [sock EXCEPT ![c] =
            LeftSock(conn'[c], [@ EXCEPT !.tx = @ \o SubSeq(eng[c].tlsOut, 1, k)])]
       /\ eng' = [eng EXCEPT ![c] =
            LeftEng(conn'[c], [@ EXCEPT !.tlsOut = SubSeq(@, k + 1, Len(@))])]
  /\ UNCHANGED <<mainpc, cur, rconn, engines, buffers, openFds, lastFatal>>

\* the writable branch: write_cb fails with errno e, which the engine hands
\* back as the result of rustls_connection_write_tls
WriteTlsFail(c) ==
  /\ Running(c)
  /\ conn[c].pc = "write_tls"
  /\ \E e \in {EWOULDBLOCK, ECONNRESET} :
       /\ e = EWOULDBLOCK => sock[c].nonblocking
       /\ conn' = [conn EXCEPT ![c] =
            AfterWriteTls([@ EXCEPT !.errno = e], e, conn[c].n)]
  /\ eng' = [eng EXCEPT ![c] = LeftEng(conn'[c], @)]
  /\ sock' = [sock EXCEPT ![c] = LeftSock(conn'[c], @)]
  /\ UNCHANGED <<mainpc, cur, rconn, engines, buffers, openFds, lastFatal>>

\* ShouldRespond without the test of the exchange state
ShouldRespond_IgnoringState(cd) == request_is_finished(cd)

\* the condition of the last if of the loop
ShouldRespond(cd) == cd.state = READING_REQUEST /\ request_is_finished(cd)

\* the last if of the loop, with send_response writing the whole reply, and
\* the FD_ZERO of both sets that opens the next iteration
CheckRequest(c) ==
  /\ Running(c)
  /\ conn[c].pc = "check"
  /\ IF ShouldRespond(conn[c])
     THEN /\ conn' = [conn EXCEPT ![c].state = SENT_RESPONSE,
                                  ![c].written = Append(@, Response),
                                  ![c].read_fds = FALSE, ![c].write_fds = FALSE,
                                  ![c].pc = "select"]
          /\ eng' = [eng EXCEPT ![c] = rustls_connection_write(@, Response)]
     ELSE /\ conn' = [conn EXCEPT ![c].read_fds = FALSE, ![c].write_fds = FALSE,
                                  ![c].pc = "select"]
          /\ eng' = eng
  /\ UNCHANGED <<mainpc, cur, rconn, engines, buffers, openFds, sock, lastFatal>>

\* send_response: rustls_connection_write took fewer bytes than the reply
\* has (or failed and left n unset): abort()
SendResponseAbort(c) ==
  /\ Running(c)
  /\ conn[c].pc = "check"
  /\ ShouldRespond(conn[c])
  /\ mainpc' = "aborted"
  /\ conn' = [conn EXCEPT ![c].state = SENT_RESPONSE,
                          ![c].written = Append(@, Response)]
  /\ UNCHANGED <<cur, rconn, engines, buffers, openFds, eng, sock, lastFatal>>

\* the failures of a handler that are fatal for its connection: select,
\* read_tls, process_new_packets, the plaintext read (or the copy to stdout),
\* write_tls, and bytes after close_notify
FatalCauses ==
  {"select", "read_tls", "process_new_packets", "plaintext", "write_tls", "verify"}

\* the handler is at cleanup because of one of them
FatalExit(cd) ==
  /\ cd.pc = "cleanup"
  /\ cd.cause \in FatalCauses
  /\ cd.cause = "verify" => cd.result = CRUSTLS_DEMO_ERROR

\* the sockets open after the cleanup label of handle_conn: close(sockfd) if
\* sockfd > 0
AfterClose(fds, cd) == IF cd.fd > 0 THEN fds \ {cd.fd} ELSE fds

\* the cleanup label: the socket is closed and the thread returns.  Nothing
\* is freed.  conndata and the engine stay allocated, but no variable of the
\* program refers to conndata any more, so their contents are dropped from
\* the state.
Cleanup(c) ==
  /\ Running(c)
  /\ conn[c].pc = "cleanup"
  /\ openFds' = AfterClose(openFds, conn[c])
  /\ conn' = [conn EXCEPT ![c] = DoneConn]
  /\ eng' = [eng EXCEPT ![c] = IdleEng]
  /\ sock' = [sock EXCEPT ![c] = IdleSock]
  /\ lastFatal' = FatalExit(conn[c])
  /\ UNCHANGED <<mainpc, cur, rconn, engines, buffers>>

-----------------------------------------------------------------------------
Next ==
  \/ AcceptFail
  \/ SessionFail
  \/ ThreadCreateFail
  \/ AcceptConn
  \/ Join
  \/ \E c \in Conns :
       \/ ClientSend(c)
       \/ ClientClose(c)
       \/ SelectError(c)
       \/ Select(c)
       \/ ReadTlsData(c)
       \/ ReadTlsEof(c)
       \/ ReadTlsFail(c)
       \/ ProcessAndCopy(c)
       \/ CopyOutOfMemory(c)
       \/ VerifyRead(c)
       \/ WriteTls(c)
       \/ WriteTlsFail(c)
       \/ CheckRequest(c)
       \/ SendResponseAbort(c)
       \/ Cleanup(c)

Spec == Init /\ [][Next]_vars

-----------------------------------------------------------------------------
(* Properties *)

\* the bytes the accumulator holds: data_from_client[0 .. data_len)
Accumulated(cd) == SubSeq(cd.data_from_client, 1, cd.data_len)

\* the plaintext the client has sent on connection c
SentPlain(c) == Flatten(sock[c].sentChunks)

\* whether pat occurs in the sequence s
Contains(s, pat) ==
  \E i \in 1..(Len(s) - Len(pat) + 1) : SubSeq(s, i, i + Len(pat) - 1) = pat

\* the handler of c waits in select and everything the client has sent has
\* been read from the socket and processed by the engine
Quiescent(c) ==
  /\ conn[c].pc = "select"
  /\ sock[c].rx = <<>>
  /\ sock[c].partial = NoRecord
  /\ eng[c].inbuf = <<>>

\* C1: on every connection the reply is handed to rustls_connection_write at
\* most once: at no time have two replies been written, and once the
\* exchange state is SENT_RESPONSE a step of the running connection neither
\* writes a reply again nor takes the state back to READING_REQUEST.
C1_ReplyAtMostOnce ==
  [][\A c \in Conns :
       /\ Len(conn'[c].written) <= 1
       /\ (conn[c].state = SENT_RESPONSE /\ conn'[c].pc # "done")
            => /\ conn'[c].state = SENT_RESPONSE
               /\ conn'[c].written = conn[c].written]_vars

\* a second terminator has been accumulated after the reply was written
C1_Witness ==
  \E c \in Conns :
    /\ conn[c].state = SENT_RESPONSE
    /\ conn[c].written = <<Response>>
    /\ conn[c].pc = "check"
    /\ Accumulated(conn[c]) = Terminator \o Terminator

\* C2 (as claimed): no connection reaches the cleanup label because a raw
\* read or a raw write ended with WouldBlock.
C2_WouldBlockNeverTerminates ==
  \A c \in Conns :
    conn[c].pc = "cleanup" =>
      /\ conn[c].cause = "read_tls" => conn[c].errno # EWOULDBLOCK
      /\ conn[c].cause = "write_tls" => conn[c].err # EWOULDBLOCK

\* C3 (as claimed): when the read after close_notify returned bytes, do_read
\* returns CRUSTLS_DEMO_ERROR.
C3_BytesAfterCloseNotifyAreAnError ==
  \A c \in Conns :
    (conn[c].pc = "cleanup" /\ conn[c].cause = "verify" /\ conn[c].n > 0)
      => conn[c].result = CRUSTLS_DEMO_ERROR

\* C4: when the read after close_notify returned 0 bytes or failed with
\* WouldBlock, do_read returns CRUSTLS_DEMO_CLOSE_NOTIFY and handle_conn
\* reaches cleanup with ret = 0.
C4_CleanCloseNotify ==
  \A c \in Conns :
    (/\ conn[c].pc = "cleanup"
     /\ conn[c].cause = "verify"
     /\ \/ conn[c].n = 0
        \/ conn[c].n = -1 /\ conn[c].errno = EWOULDBLOCK)
      => conn[c].result = CRUSTLS_DEMO_CLOSE_NOTIFY /\ conn[c].ret = 0

\* the read after close_notify ended with WouldBlock and the connection is
\* at cleanup with ret = 0
C4_Witness ==
  \E c \in Conns :
    /\ conn[c].pc = "cleanup"
    /\ conn[c].cause = "verify"
    /\ conn[c].n = -1
    /\ conn[c].errno = EWOULDBLOCK
    /\ conn[c].ret = 0

\* C5 (as claimed): the accumulator always holds a prefix of the plaintext
\* the client sent, and no plaintext is left behind: when the handler is back
\* in select with everything the client sent read and processed, the
\* accumulator holds all of it.
C5_NoPlaintextLost ==
  \A c \in Conns :
    /\ conn[c].pc \notin {"idle", "done"} =>
         /\ conn[c].data_len <= Len(SentPlain(c))
         /\ Accumulated(conn[c]) = SubSeq(SentPlain(c), 1, conn[c].data_len)
    /\ Quiescent(c) => Accumulated(conn[c]) = SentPlain(c)

\* C6: on a running connection data_len <= data_capacity - 1 and the byte
\* at index data_len lies inside the allocation; a step of a running
\* connection leaves data_capacity as it is or doubles it, and does not
\* decrease data_len.
C6_BufferBounds ==
  [][\A c \in Conns :
       conn'[c].pc \notin {"idle", "done"} =>
         /\ conn'[c].data_len <= conn'[c].data_capacity - 1
         /\ conn'[c].data_len < conn'[c].alloc
         /\ Len(conn'[c].data_from_client) = conn'[c].data_len
         /\ conn[c].pc # "idle" =>
              /\ conn'[c].data_capacity \in
                   {conn[c].data_capacity, 2 * conn[c].data_capacity}
              /\ conn'[c].data_len >= conn[c].data_len]_vars

\* the accumulator is full: data_len = data_capacity - 1, after a call of
\* copy_plaintext_to_buffer that found the headroom below the threshold
C6_Witness ==
  \E c \in Conns :
    /\ conn[c].pc \notin {"idle", "done"}
    /\ conn[c].data_len = conn[c].data_capacity - 1
    /\ conn[c].alloc > InitialCapacity

\* C7 (as claimed), in the form a finite run refutes: when the client has
\* completed the handshake and sent plaintext that contains \r\n\r\n, keeps
\* the connection open, and the handler is back in select with all of it
\* read and processed, the exchange state is SENT_RESPONSE and exactly the
\* fixed reply was handed to rustls_connection_write.
C7_RequestIsAnswered ==
  \A c \in Conns :
    (/\ Quiescent(c)
     /\ sock[c].handshaken
     /\ ~sock[c].peerClosed
     /\ ~sock[c].alerted
     /\ Contains(SentPlain(c), Terminator))
      => conn[c].state = SENT_RESPONSE /\ conn[c].written = <<Response>>

\* C8: no reply is written while the accumulated plaintext contains no
\* \r\n\r\n; in particular a connection that ends with EOF after plaintext
\* without \r\n\r\n is still in READING_REQUEST and has written no reply.
C8_NoReplyWithoutTerminator ==
  \A c \in Conns :
    /\ conn[c].written # <<>> => Contains(Accumulated(conn[c]), Terminator)
    /\ conn[c].state = SENT_RESPONSE => conn[c].written # <<>>
    /\ (/\ conn[c].pc = "cleanup"
        /\ conn[c].cause = "eof"
        /\ ~Contains(SentPlain(c), Terminator))
         => /\ conn[c].result = CRUSTLS_DEMO_EOF
            /\ conn[c].state = READING_REQUEST
            /\ conn[c].written = <<>>

\* the peer sent a line without the terminator and closed the socket: the
\* connection is at cleanup by EOF with that line accumulated
C8_Witness ==
  \E c \in Conns :
    /\ conn[c].pc = "cleanup"
    /\ conn[c].cause = "eof"
    /\ Accumulated(conn[c]) = <<X, CR, LF>>
    /\ conn[c].state = READING_REQUEST

\* C9 (as claimed): after a connection has ended its socket is closed and
\* its engine session and its accumulator are released.
C9_ResourcesReleased ==
  \A c \in Conns :
    conn[c].pc = "done" =>
      /\ c \notin engines
      /\ c \notin buffers
      /\ (mainpc = "accept" => openFds = {})

\* C10: a fatal failure in a handler ends only its connection: the step that
\* takes the handler to cleanup and the step that ends the thread leave the
\* process running with main in pthread_join, and when main leaves
\* pthread_join the thread has returned and main is at accept again.
C10_FailureEndsOnlyTheConnection ==
  [][/\ \A c \in Conns :
          (FatalExit(conn[c]) \/ FatalExit(conn'[c])) =>
             mainpc = "join" /\ mainpc' = "join"
     /\ (mainpc = "join" /\ mainpc' \notin {"join", "aborted"}) =>
          mainpc' = "accept" /\ conn[cur].pc = "done"
     /\ mainpc' = "exited" => mainpc = "accept"]_vars

\* a connection accepted after an earlier one had ended has itself ended
\* with a fatal failure: its thread has returned and main, still in
\* pthread_join, is about to go round the loop again
C10_Witness ==
  /\ lastFatal
  /\ cur > 1
  /\ mainpc = "join"
  /\ conn[cur].pc = "done"

\* C11 (as claimed): a connection whose socket could not be set non-blocking
\* gets no engine session and no handler: every connection whose handler has
\* been started has a non-blocking socket.
C11_NonblockFailureIsFatal ==
  \A c \in Conns :
    conn[c].pc \notin {"idle", "done"} =>
      sock[c].nonblocking

\* the connections whose handle_conn has been started and has not returned
RunningConns == {c \in Conns : conn[c].pc \notin {"idle", "done"}}

\* C12: the acceptor serializes connections: at most one handle_conn is
\* running at any time, none is running while main is at accept, and a step
\* changes the socket, engine or accumulator of no connection but the one
\* main created last.
C12_ConnectionsAreSerialized ==
  [][/\ Cardinality(RunningConns') <= 1
     /\ mainpc' = "accept" => RunningConns' = {}
     /\ \A c \in Conns :
          (conn'[c] # conn[c] \/ eng'[c] # eng[c] \/ sock'[c] # sock[c])
            => c = cur' /\ RunningConns \subseteq {c}]_vars

\* the handler of the second connection is in its writable branch after the
\* first connection has ended
C12_Witness ==
  /\ cur = 2
  /\ conn[1].pc = "done"
  /\ conn[2].pc = "write_tls"

\* C13 (as claimed): the writable branch ends the connection only when
\* rustls_connection_write_tls returned a non-zero error code; a call that
\* succeeds with 0 bytes flushed leaves the loop running.
C13_ZeroBytesFlushedIsNormal ==
  \A c \in Conns :
    (conn[c].pc = "cleanup" /\ conn[c].cause \in {"write_tls", "write_tls_eof"})
      => conn[c].err # ENone

C15_CapacityDoublesBelowThreshold ==
  [][\A c \in Conns :
       (/\ conn[c].pc = "process"
        /\ NeedsGrowth(conn[c])
        /\ conn'[c].alloc # conn[c].alloc)
         => conn'[c].data_capacity = 2 * conn[c].data_capacity]_vars

\* C16 (as claimed): where handle_conn calls request_is_finished, it returns
\* true exactly when \r\n\r\n occurs in data_from_client[0 .. data_len),
\* whatever bytes the accumulator holds.
C16_FinishedIffTerminatorOccurs ==
  \A c \in Conns :
    conn[c].pc = "check" =>
      (request_is_finished(conn[c])
         <=> Contains(Accumulated(conn[c]), Terminator))

\* the pcs of the read loop of handle_conn
ReadLoopPcs == {"read_tls", "process", "verify"}

\* C17: the steps of a read cycle come in a fixed order.  A read_tls that
\* ingested bytes is followed by process_new_packets, and nothing else leads
\* there; the engine's ingest buffer changes only in these two calls; the
\* plaintext is drained only after process_new_packets succeeded, and until
\* rustls_connection_read returns 0 bytes (no plaintext left, or no room
\* offered); and the read loop is left only by WouldBlock (on to the writable
\* branch) or by EOF, close-notify or an error (to cleanup).
C17_ReadCycleOrder ==
  [][\A c \in Conns :
       LET pc == conn[c].pc
           pc2 == conn'[c].pc
       IN /\ (pc = "read_tls" /\ pc2 # "cleanup" /\ eng'[c].inbuf # eng[c].inbuf) =>
               pc2 = "process"
          /\ (pc2 = "process" /\ pc # "process") =>
               /\ pc = "read_tls"
               /\ Len(eng'[c].inbuf) > Len(eng[c].inbuf)
          /\ (pc2 # "cleanup" /\ eng'[c].inbuf # eng[c].inbuf) =>
               pc \in {"read_tls", "process", "cleanup"}
          /\ (pc # "cleanup" /\ conn'[c].data_len # conn[c].data_len) => pc = "process"
          /\ (pc # "cleanup" /\ pc2 # "cleanup" /\ eng'[c].plain # eng[c].plain) =>
               pc = "process"
          /\ (pc = "process" /\ pc2 # "process") =>
               /\ pc2 \in {"read_tls", "verify", "cleanup"}
               /\ pc2 = "read_tls" =>
                    eng'[c].plain = <<>> \/ Avail(conn'[c]) = 0
               /\ (pc2 = "cleanup" /\ conn'[c].cause = "process_new_packets") =>
                    conn'[c].data_len = conn[c].data_len
          /\ (pc \in ReadLoopPcs /\ pc2 \notin ReadLoopPcs) =>
               \/ pc2 = "cleanup"
               \/ /\ pc = "read_tls"
                  /\ pc2 = AfterReadLoop(conn[c])
                  /\ conn'[c].errno = EWOULDBLOCK]_vars

\* a second read cycle on a connection: plaintext of an earlier cycle is in
\* the accumulator, read_tls has ingested more bytes and
\* process_new_packets comes next
C17_Witness ==
  \E c \in Conns :
    /\ conn[c].pc = "process"
    /\ conn[c].data_len > 0
    /\ eng[c].inbuf # <<>>

\* the encrypted reply of connection c has been written to the socket
ReplyFlushed(c) == \E i \in 1..Len(sock[c].tx) : sock[c].tx[i] = Response

\* C18 (as claimed), for the ends after which the peer can still receive:
\* when the read loop ends a connection by EOF or close-notify after
\* send_response has handed the reply to the engine, a
\* rustls_connection_write_tls call has flushed the reply to the socket
\* before the socket is closed.
C18_ReplyFlushedBeforeClose ==
  \A c \in Conns :
    (/\ conn[c].pc = "cleanup"
     /\ conn[c].written # <<>>
     /\ conn[c].cause \in {"eof", "verify"})
      => ReplyFlushed(c)

\* C19 (as claimed): whenever handle_conn is at the top of its loop, about
\* to call select, the engine wants to read or wants to write, so that the
\* interest sets are not both empty.
C19_SelectInterestNeverEmpty ==
  \A c \in Conns :
    conn[c].pc = "select" =>
      \/ rustls_connection_wants_read(eng[c])
      \/ rustls_connection_wants_write(eng[c])

====
